---- MODULE Spec2Model ----
(***************************************************************************)
(* Model of the A2A bridge of packages/core/src/a2a: the connection        *)
(* registry (A2AClientManager), the per-agent tool registrar               *)
(* (A2AToolRegistry), the two static tools (A2AToolFunctions) and the tool *)
(* table of the MCP server they install into.                              *)
(*                                                                         *)
(* Every tool invocation is a call record.  A call runs synchronously up   *)
(* to its first await (the ...Start action) and goes on when the network   *)
(* answers (the ...Complete action).  A call that awaits occupies a slot   *)
(* of `pending`; `last` is the call whose handler ran to its return in the *)
(* latest step (Idle if none did): its promise is resolved, and whoever    *)
(* awaits it, the server or main(), goes on in a later step.               *)
(*                                                                         *)
(* loadAgent and sendMessage of the manager write to the Registry after    *)
(* their await, and the handler awaiting them resumes in a later           *)
(* microtask: ...Complete is the manager's continuation, ...Return the     *)
(* handler's, and `micro` holds the slots whose handler is due to resume,  *)
(* in order.  Network answers may arrive while handlers are due; the host  *)
(* is served once none is.  getTask, cancelTask and listAgents change      *)
(* nothing after their await, so their two continuations are one step.     *)
(***************************************************************************)
EXTENDS Integers, Sequences, FiniteSets, TLC

\* ---------------------------------------------------------------- bounds
MaxLoads == 2        \* load_agent invocations of the host in one run
MaxTasks == 2        \* task ids generated in one run
MaxInflight == 2     \* invocations awaiting the network at the same time
MaxParts == 2        \* parts in one message

\* ------------------------------------------------------------ environment
\* Endpoints the host may load, and the descriptor name each one serves.
Urls == {"u1", "u2", "u3"}

CardName(u) ==
  CASE u = "u1" -> <<"H", "B">>
    [] u = "u2" -> <<"H", " ", "B">>
    [] OTHER    -> <<"A">>

\* The url member of the descriptor served at u (not the url it is fetched
\* from).
CardUrl(u) == "http://" \o u \o "/a2a/v1"

\* The name a peer serves once it has renamed itself.
Renamed(name) == name \o <<" ", "v", "2">>

\* The AgentCard served at u, before and after the peer renamed itself.
AgentCard(u, renamed) ==
  [name |-> IF renamed THEN Renamed(CardName(u)) ELSE CardName(u),
   url |-> CardUrl(u)]

AllNames == {CardName(u) : u \in Urls}

\* Continuity tokens a peer may return.
Tokens == {"c1", "c2"}
NoCtx == "none"
NoTask == 0
NoName == <<>>

\* ------------------------------------------------------------ pure helpers
\* The characters of the class \s of a JavaScript regular expression.  A
\* character that cannot be written in a string here stands as its code
\* point: "U+000B" is the vertical tab.
WhiteSpace ==
  {" ", "\t", "\n", "\r", "\f", "U+000B", "U+00A0", "U+1680",
   "U+2000", "U+2001", "U+2002", "U+2003", "U+2004", "U+2005", "U+2006",
   "U+2007", "U+2008", "U+2009", "U+200A", "U+2028", "U+2029", "U+202F",
   "U+205F", "U+3000", "U+FEFF"}

\* /\s/ of agentName.replace(/\s/g, '')
IsWhitespace(ch) == ch \in WhiteSpace

IsNotWhitespace(ch) == ~IsWhitespace(ch)

\* agentName.replace(/\s/g, '')
Sanitize(name) == SelectSeq(name, IsNotWhitespace)

\* (variant: the name is used as it is, as in `${agentName}_${op}`)
ToolNameRaw(name, op) == name \o <<"_", op>>

\* `${sanitizedAgentName}_${op}`
ToolName(name, op) == Sanitize(name) \o <<"_", op>>

AgentOps == <<"sendMessage", "getTask", "cancelTask">>

\* ---- Map<string, A2AClient> kept as a sequence of entries (insertion order)
MapHas(m, key) == \E i \in 1..Len(m) : m[i].name = key

MapGet(m, key) == m[CHOOSE i \in 1..Len(m) : m[i].name = key].conn

\* (variant: the entry is not kept)
MapSetDropped(m, key, c) == m

\* (variant: the map keeps the latest entry only)
MapSetLatestOnly(m, key, c) == <<[name |-> key, conn |-> c]>>

\* Map.set: a new key is appended, an existing key keeps its position
MapSet(m, key, c) ==
  IF MapHas(m, key)
    THEN [i \in 1..Len(m) |->
            IF m[i].name = key THEN [name |-> key, conn |-> c] ELSE m[i]]
    ELSE Append(m, [name |-> key, conn |-> c])

\* ------------------------------------------------- registry code fragments
\* (variant: the duplicate check is missing)
IsLoadedNever(reg, name) == FALSE

\* loadAgent: this.registeredAgents.has(agentCard.name)
IsLoaded(reg, name) == MapHas(reg, name)

\* sendMessage, getTask, cancelTask: this.registeredAgents.get(agentName)
\* is defined
HasAgent(reg, name) == MapHas(reg, name)

\* (variant: the same identifier every time)
uuidv4Constant(handedOut) == 1

\* uuidv4(): a fresh identifier, never equal to one handed out before
uuidv4(handedOut) == Len(handedOut) + 1

\* (variant: one Set instance shared by all agents)
AddTaskShared(tm, agent, id) == [a \in DOMAIN tm |-> tm[a] \cup {id}]

\* this.taskMap.set(agentName, (this.taskMap.get(agentName) || new Set()).add(taskId))
AddTask(tm, agent, id) == [tm EXCEPT ![agent] = @ \cup {id}]

\* (variant: the id is looked up without regard to the agent)
OwnsTaskAnyAgent(tm, agent, id) == \E a \in DOMAIN tm : id \in tm[a]

\* this.taskMap.get(agentName)?.has(taskId)
OwnsTask(tm, agent, id) == id \in tm[agent]

\* (variant: the task set is consulted before the connection)
PrecheckTaskFirst(reg, tm, agentName, taskId) ==
  IF ~OwnsTask(tm, agentName, taskId) THEN "TaskNotFound"
  ELSE IF ~HasAgent(reg, agentName) THEN "NotRegistered"
  ELSE "ok"

\* the two throws that open getTask and cancelTask, in their order
Precheck(reg, tm, agentName, taskId) ==
  IF ~HasAgent(reg, agentName) THEN "NotRegistered"
  ELSE IF ~OwnsTask(tm, agentName, taskId) THEN "TaskNotFound"
  ELSE "ok"

\* (variant: the id is never removed)
DeleteTaskNoop(tm, agent, id) == tm

\* agentTaskSet.delete(taskId)
DeleteTask(tm, agent, id) == [tm EXCEPT ![agent] = @ \ {id}]

\* (variant: the stored context is never attached)
OutboundContextNone(cm, agent) == NoCtx

\* const contextId = this.contextMap.get(agentName);
\* if (contextId) messageParams.message.contextId = contextId;
OutboundContext(cm, agent) == cm[agent]

\* (variant: one context for the whole process)
StoreContextShared(cm, agent, newCtx) ==
  IF newCtx # NoCtx THEN [a \in DOMAIN cm |-> newCtx] ELSE cm

\* (variant: a context, once stored, is kept; later tokens are dropped)
StoreContextFirstWins(cm, agent, newCtx) ==
  IF newCtx # NoCtx /\ cm[agent] = NoCtx THEN [cm EXCEPT ![agent] = newCtx]
  ELSE cm

\* (variant: the context is overwritten even when the response has none)
StoreContextAlways(cm, agent, newCtx) == [cm EXCEPT ![agent] = newCtx]

\* if (newContextId) this.contextMap.set(agentName, newContextId);
StoreContext(cm, agent, newCtx) ==
  IF newCtx # NoCtx THEN [cm EXCEPT ![agent] = newCtx] ELSE cm

\* ---- message parts (TextPart | DataPart | FilePart), as far as
\* extractMessageText reads them; "" stands for an absent or falsy member
TextPart(t) == [kind |-> "text", text |-> t, data |-> "", name |-> "", src |-> "none"]

DataPart(d) == [kind |-> "data", text |-> "", data |-> d, name |-> "", src |-> "none"]

FilePart(n, src) == [kind |-> "file", text |-> "", data |-> "", name |-> n, src |-> src]

\* A response to message/send, tasks/get or tasks/cancel: a failed request
\* ("throw"), an error payload, or a result of kind message or task with its
\* contextId, its parts (for a task: those of status.message, if msg), its
\* status.state and whether it has a history.  A task result has the id of
\* the request unless the peer gave it an id of its own (own).
Response(kind, ctx, msg, parts, state, hist) ==
  [kind |-> kind, ctx |-> ctx, msg |-> msg, parts |-> parts, state |-> state,
   hist |-> hist, own |-> FALSE]

\* The same response, the peer having given the task an id of its own.
OwnId(resp) == [resp EXCEPT !.own = TRUE]

\* An id a peer chose: no id uuidv4 hands out equals it.
PeerTaskId == MaxTasks + 1

\* task.id of the task result resp to a request that carried `requested`
TaskIdOf(resp, requested) == IF resp.own THEN PeerTaskId ELSE requested

NoResponse == Response("none", NoCtx, FALSE, <<>>, "none", FALSE)

\* What a peer may answer to message/send.  "throw" is a failed request.
SendResponses ==
  {Response(kind, NoCtx, FALSE, <<>>, "none", FALSE) : kind \in {"throw", "error"}}
    \cup {Response("message", ctx, TRUE, <<TextPart("hello")>>, "none", FALSE) :
            ctx \in Tokens \cup {NoCtx}}
    \cup {Response("task", ctx, FALSE, <<>>, "working", FALSE) :
            ctx \in Tokens \cup {NoCtx}}

\* The continuity token of a response: that of its result, none for an
\* error payload.
extractContextId(resp) ==
  IF resp.kind \in {"message", "task"} THEN resp.ctx ELSE NoCtx

\* What a peer may answer to tasks/get and tasks/cancel.
TaskResponses == {"task", "error", "throw"}

\* The response of that kind to tasks/get or tasks/cancel.
TaskReply(op, kind) ==
  Response(kind, NoCtx, FALSE, <<>>,
           IF kind # "task" THEN "none"
           ELSE IF op = "cancelTask" THEN "canceled" ELSE "working",
           FALSE)

\* (variant: the handler has no try/catch)
HandlerCatchNone(err) == "Exception"

\* catch (e) { return textResponse(`Failed to ...: ${error.message}`) }
HandlerCatch(err) == err

\* The text a peer-specific handler returns, by kind.
HandlerResult(kind) ==
  CASE kind = "throw"   -> HandlerCatch("NetworkError")
    [] kind = "error"   -> "RemoteError"
    [] kind = "message" -> "Message"
    [] OTHER            -> "Task"

\* ------------------------------------------------------- returned texts
\* A text is kept as the template that produced it (% marks a substitution),
\* the agent name substituted into it and the tokens of the rest.
Text(form, peer, body) == [form |-> form, peer |-> peer, body |-> body]

NoText == Text("", NoName, <<>>)

RECURSIVE Join(_, _)
\* lines.join(sep)
Join(lines, sep) ==
  IF Len(lines) = 0 THEN <<>>
  ELSE IF Len(lines) = 1 THEN lines[1]
  ELSE lines[1] \o <<sep>> \o Join(Tail(lines), sep)

IsTextPart(p) == p.kind = "text" /\ p.text # ""

IsDataPart(p) == p.kind = "data" /\ p.data # ""

IsFilePart(p) == p.kind = "file"

\* the line for one file part: its name, else its uri, else its bytes
FileLine(p) ==
  IF p.name # "" THEN <<"File: ", p.name>>
  ELSE IF p.src = "uri" THEN <<"File: ", "uri">>
  ELSE IF p.src = "bytes" THEN <<"File: [unnamed file with bytes]">>
  ELSE <<"[unknown file part]">>

\* (variant: data parts are looked at before text parts)
extractMessageTextDataFirst(msg, parts) ==
  LET texts == SelectSeq(parts, IsTextPart)
      datas == SelectSeq(parts, IsDataPart)
      files == SelectSeq(parts, IsFilePart)
  IN IF ~msg THEN <<>>
     ELSE IF Len(datas) > 0
       THEN Join([i \in 1..Len(datas) |-> <<"Data: ", datas[i].data>>], "\n")
     ELSE IF Len(texts) > 0
       THEN Join([i \in 1..Len(texts) |-> <<texts[i].text>>], " ")
     ELSE IF Len(files) > 0
       THEN Join([i \in 1..Len(files) |-> FileLine(files[i])], "\n")
     ELSE <<"[unknown message part]">>

\* extractMessageText(message): '' for no message; the non-empty text parts
\* joined by ' '; else the data parts; else the file parts; else a marker
extractMessageText(msg, parts) ==
  LET texts == SelectSeq(parts, IsTextPart)
      datas == SelectSeq(parts, IsDataPart)
      files == SelectSeq(parts, IsFilePart)
  IN IF ~msg THEN <<>>
     ELSE IF Len(texts) > 0
       THEN Join([i \in 1..Len(texts) |-> <<texts[i].text>>], " ")
     ELSE IF Len(datas) > 0
       THEN Join([i \in 1..Len(datas) |-> <<"Data: ", datas[i].data>>], "\n")
     ELSE IF Len(files) > 0
       THEN Join([i \in 1..Len(files) |-> FileLine(files[i])], "\n")
     ELSE <<"[unknown message part]">>

\* extractTaskText(task): id, state, the status message if it has text, and
\* the (uninterpolated) history line
extractTaskText(id, resp) ==
  LET messageText == extractMessageText(resp.msg, resp.parts)
  IN <<"ID:      ", ToString(id), "\n", "State:   ", resp.state, "\n">>
       \o (IF messageText # <<>>
             THEN <<"Message: ">> \o messageText \o <<"\n">> ELSE <<>>)
       \o (IF resp.hist
             THEN <<"\nHistory:\n ${task.history.length} messages\n">> ELSE <<>>)

\* response.error.message of an error payload
PeerErrorMessage == "peer error message"

\* error.message of what the Registry or the network layer threw
ErrorMessage(cause) ==
  CASE cause = "NotRegistered" -> "Agent with name % is not registered. Please run load_agent first."
    [] cause = "TaskNotFound"  -> "Agent with name % has no task % associated with it."
    [] OTHER                   -> "fetch failed"

\* the `'error' in response` branch of the three handlers
ErrorText(op, agentName, message) ==
  Text(CASE op = "sendMessage" -> "Error from agent %: %"
         [] op = "getTask"     -> "Error from agent % when getting task %"
         [] OTHER              -> "Error from agent % when canceling task: %",
       agentName, <<message>>)

\* (variant: the catch block words its text like the error branch)
CatchTextAsError(op, agentName, message) == ErrorText(op, agentName, message)

\* the catch block of the three handlers
CatchText(op, agentName, message) ==
  Text(CASE op = "sendMessage" -> "Failed to send message to %: %"
         [] op = "getTask"     -> "Failed to get task from agent %: %"
         [] OTHER              -> "Failed to Cancel Task on Agent %: %",
       agentName, <<message>>)

LocalFailures == {"NotRegistered", "TaskNotFound", "throw"}

\* What a peer-specific handler returns for the outcome `cause` of its
\* Registry call (a thrown error, or the kind of the response resp).
HandlerText(op, agentName, taskId, cause, resp) ==
  IF cause \in LocalFailures THEN CatchText(op, agentName, ErrorMessage(cause))
  ELSE IF cause = "error" THEN ErrorText(op, agentName, PeerErrorMessage)
  ELSE IF op = "sendMessage" /\ cause = "message"
    THEN Text("%", NoName, extractMessageText(resp.msg, resp.parts))
  ELSE Text("%", NoName, extractTaskText(TaskIdOf(resp, taskId), resp))

\* --------------------------------------------------------- MCP tool table
StaticTools ==
  { [name |-> <<"load_agent">>, op |-> "load_agent", agent |-> NoName],
    [name |-> <<"list_agents">>, op |-> "list_agents", agent |-> NoName] }

ToolNames(ts) == {t.name : t \in ts}

\* (variant: the table is written before the name is checked)
RegisterToolWriteFirst(r, agentName, op) ==
  LET new == [name |-> ToolName(agentName, op), op |-> op, agent |-> agentName]
  IN IF ~r.ok THEN r
     ELSE [ok |-> new.name \notin ToolNames(r.tools),
           tools |-> {t \in r.tools : t.name # new.name} \cup {new}]

\* server.registerTool(name, ..., handler): rejects a name already in the
\* table; the handler closes over agentName.
RegisterTool(r, agentName, op) ==
  IF ~r.ok THEN r
  ELSE IF ToolName(agentName, op) \in ToolNames(r.tools)
    THEN [ok |-> FALSE, tools |-> r.tools]
    ELSE [ok |-> TRUE,
          tools |-> r.tools \cup
            {[name |-> ToolName(agentName, op), op |-> op, agent |-> agentName]}]

\* The three registerTool calls, in order; the first that throws ends it.
RegisterToolsForAgent(ts, agentName) ==
  RegisterTool(
    RegisterTool(
      RegisterTool([ok |-> TRUE, tools |-> ts], agentName, AgentOps[1]),
      agentName, AgentOps[2]),
    agentName, AgentOps[3])

\* `New tools registered: X_sendMessage, X_getTask, X_cancelTask.`
Confirmation(name) == [i \in 1..3 |-> ToolName(name, AgentOps[i])]

\* agents.map((agent) => `- ${agent.name} (${agent.url})`): a line per card
ListOutput(agents) ==
  [i \in 1..Len(agents) |-> [name |-> agents[i].name, url |-> agents[i].url]]

\* ------------------------------------------------------------------ state
VARIABLES
  registeredAgents,  \* Map agentName -> A2AClient, in insertion order
  taskMap,           \* agentName -> set of task ids
  contextMap,        \* agentName -> contextId or NoCtx
  tools,             \* the server's registered tools
  pending,           \* slot -> the invocation awaiting the network there
  last,              \* the invocation whose handler returned in the latest step
  issued,            \* issued[id]: the agent whose sendMessage generated id
  nLoads,            \* load_agent invocations so far (numbers the clients)
  loadedOk,          \* names of the successful load_agent calls, in order
  cancelled,         \* <<agent, id>> of every cancelTask that succeeded
  exchange,          \* per agent: what its responses carried so far
  attempted,         \* <<agent, id>> of every cancelTask that passed its checks
  main,              \* main(): its position, its --agents input, its auto-loads
  micro              \* slots whose handler continuation is queued, in order

vars == <<registeredAgents, taskMap, contextMap, tools, pending, last,
          issued, nLoads, loadedOk, cancelled, exchange, attempted, main,
          micro>>

registry == <<registeredAgents, taskMap, contextMap>>

history == <<issued, nLoads, loadedOk, cancelled, exchange, attempted, main>>

Slots == 1..MaxInflight

\* no bearer token: the argument is undefined, the header is absent
NoToken == "none"

\* Tokens a caller may give load_agent.
AuthInputs == {NoToken, "k1"}

\* load_agent destructures only url and agent_card_path from its arguments
\* and calls loadAgent(url, agent_card_path): loadAgent's token is undefined
ForwardedToken(token) == NoToken

\* new A2AClient(url, {authHandler: token ? new StaticBearerTokenAuth(token)
\* : undefined}); auth is the Authorization bearer its requests carry.
\* id numbers the instances; given records the token load_agent was called
\* with, for the properties below.
NewClient(id, url, token, given) ==
  [id |-> id, url |-> url, auth |-> token, given |-> given]

NoConn == NewClient(0, "none", NoToken, NoToken)

\* A call record.  Besides the call's own data it carries what held when it
\* was issued (first, prev, expect, after, open, mine, tried, racing), who
\* issued it (auto: main() rather than the host), what held when it resumed
\* (snap, toolsBefore, dup, clash) and what happened while it was in flight
\* (rivals, failed), what the outbound message carries (msgTask, ctx) and how the
\* call ended (cause, got, text), for the properties below.
NewCall(op, tool, agent, url) ==
  [op |-> op, tool |-> tool, agent |-> agent, url |-> url,
   task |-> NoTask, ctx |-> NoCtx, conn |-> NoConn, net |-> FALSE,
   result |-> "pending", installed |-> <<>>, entries |-> <<>>,
   snap |-> <<>>, toolsBefore |-> {}, expect |-> <<>>, stored |-> FALSE,
   dup |-> FALSE, clash |-> FALSE, rivals |-> {}, first |-> FALSE,
   prev |-> NoCtx, after |-> FALSE, open |-> FALSE, mine |-> FALSE,
   tried |-> FALSE, racing |-> FALSE, auto |-> FALSE,
   cause |-> "none", got |-> NoResponse, text |-> NoText,
   msgTask |-> NoTask, failed |-> {}]

Idle == NewCall("none", <<>>, NoName, "none")

Finish(c, result) == [c EXCEPT !.result = result]

\* The handler of call c formats the outcome of its Registry call.
Said(c, cause, resp) ==
  [c EXCEPT !.cause = cause, !.got = resp,
            !.text = HandlerText(c.op, c.agent, c.task, cause, resp)]

Busy == {k \in Slots : pending[k].op # "none"}

\* The slots whose handler continuation is queued.
Queued == {micro[i] : i \in 1..Len(micro)}

\* the host can call a tool once the transport is connected; its request is
\* dispatched in a turn of its own, when no continuation is queued
CanIssue == main.pc = "serving" /\ Busy # Slots /\ micro = <<>>

FreeSlot == CHOOSE k \in Slots \ Busy : \A j \in Slots \ Busy : k <= j

\* the invocation returns to the host without having awaited anything
ReturnNow(c) == last' = c /\ UNCHANGED <<pending, micro>>

\* the invocation suspends on the network
Await(c) ==
  /\ pending' = [pending EXCEPT ![FreeSlot] = c]
  /\ last' = Idle
  /\ UNCHANGED micro

\* the Registry call of the invocation in slot k settles (it returns or
\* throws inside its async function): the handler that awaits it resumes in
\* a later microtask, after the continuations queued before
Settle(k, c) ==
  /\ pending' = [pending EXCEPT ![k] = c]
  /\ last' = Idle
  /\ micro' = Append(micro, k)

\* The continuation that runs next is that of slot k.
IsNext(k) == micro # <<>> /\ Head(micro) = k

Installed(op) == {t \in tools : t.op = op}

NoExchange == [resp |-> NoCtx, returned |-> {}]

\* process.argv as main() sees it: whether --agents is given, whether its
\* value parses, and the urls of its entries
NoAgentsFlag == [flag |-> FALSE, parses |-> FALSE, entries |-> <<>>]

InitWith(argvs) ==
  /\ main \in [pc : {"start"}, argv : argvs, loaded : {{}}]
  /\ attempted = {}
  /\ registeredAgents = <<>>
  /\ taskMap = [n \in AllNames |-> {}]
  /\ contextMap = [n \in AllNames |-> NoCtx]
  /\ tools = StaticTools
  /\ pending = [k \in Slots |-> Idle]
  /\ last = Idle
  /\ issued = <<>>
  /\ nLoads = 0
  /\ loadedOk = <<>>
  /\ cancelled = {}
  /\ exchange = [n \in AllNames |-> NoExchange]
  /\ micro = <<>>

Init == InitWith({NoAgentsFlag})

\* Some stored connection has the same sanitized name.
SameSanitized(reg, name) ==
  \E i \in 1..Len(reg) : Sanitize(reg[i].name) = Sanitize(name)

\* The task id was generated for some agent and is still in that agent's set.
IsOpen(taskId) ==
  taskId \in 1..Len(issued) /\ taskId \in taskMap[issued[taskId]]

\* ------------------------------------------------------------- load_agent
\* An element of the --agents array that is null: reading agent.url throws.
NullEntry == [url |-> "null", accessToken |-> NoToken]

\* The entries agentConfigs.map reaches: those before the first null.
Reached(es) ==
  LET nulls == {i \in 1..Len(es) : es[i] = NullEntry}
  IN IF nulls = {} THEN es
     ELSE SubSeq(es, 1, (CHOOSE i \in nulls : \A j \in nulls : i <= j) - 1)

\* The load_agent invocations main() makes for its --agents list.
AutoLoads ==
  IF main.argv.flag /\ main.argv.parses THEN Len(Reached(main.argv.entries))
  ELSE 0

\* load_agent up to `await a2aClient.getAgentCard()`; the host invokes it at
\* most MaxLoads times
LoadStart(u, token) ==
  /\ CanIssue
  /\ nLoads - AutoLoads < MaxLoads
  /\ Installed("load_agent") # {}
  /\ nLoads' = nLoads + 1
  /\ Await([NewCall("load_agent", <<"load_agent">>, NoName, u) EXCEPT
              !.net = TRUE,
              !.conn = NewClient(nLoads + 1, u, ForwardedToken(token), token)])
  /\ UNCHANGED <<registry, tools, issued, loadedOk, cancelled, exchange,
                 attempted, main>>

\* loadAgent after the fetch: the duplicate check and registeredAgents.set,
\* or the error it throws; load_agent, which awaits it, resumes later
LoadComplete(k, fetched) ==
  /\ k \in Busy \ Queued
  /\ pending[k].op = "load_agent"
  /\ UNCHANGED <<taskMap, contextMap, tools, issued, nLoads, loadedOk,
                 cancelled, exchange, attempted, main>>
  /\ LET name == CardName(pending[k].url)
         c == [pending[k] EXCEPT
                 !.snap = registeredAgents,
                 !.dup = fetched /\ MapHas(registeredAgents, name),
                 !.clash = fetched /\ SameSanitized(registeredAgents, name)]
         settled ==
           IF ~fetched THEN [c EXCEPT !.cause = "DescriptorFetchFailed"]
           ELSE IF IsLoaded(registeredAgents, name)
             THEN [c EXCEPT !.agent = name, !.cause = "AlreadyRegistered"]
           ELSE [c EXCEPT !.agent = name, !.cause = "card", !.stored = TRUE]
     IN /\ Settle(k, settled)
        /\ registeredAgents' =
             IF settled.stored THEN MapSet(registeredAgents, name, c.conn)
             ELSE registeredAgents

\* load_agent resumes in its try block: registerToolsForAgent and the
\* confirmation, or the catch and the failure text
LoadReturn(k) ==
  /\ IsNext(k)
  /\ pending[k].op = "load_agent"
  /\ UNCHANGED <<registry, issued, nLoads, cancelled, exchange, attempted>>
  /\ LET c == [pending[k] EXCEPT !.toolsBefore = tools]
         name == c.agent
         r == RegisterToolsForAgent(tools, name)
         done ==
           IF c.cause # "card" THEN Finish(c, c.cause)
           ELSE Finish([c EXCEPT
                          !.installed = IF r.ok THEN Confirmation(name) ELSE <<>>],
                       IF r.ok THEN "Loaded" ELSE "ToolAlreadyRegistered")
     IN /\ last' = done
        /\ micro' = Tail(micro)
        /\ pending' = [j \in Slots |->
             IF j = k THEN Idle
             ELSE IF pending[j].op = "load_agent" /\ c.cause # "DescriptorFetchFailed"
                     /\ CardName(pending[j].url) = name
               THEN [pending[j] EXCEPT !.rivals = @ \cup
                       {[result |-> done.result, stored |-> done.stored,
                         dup |-> done.dup, clash |-> done.clash,
                         installed |-> done.installed # <<>>]}]
             ELSE pending[j]]
        /\ tools' = IF done.stored THEN r.tools ELSE tools
        /\ loadedOk' = IF done.result = "Loaded" THEN Append(loadedOk, name)
                       ELSE loadedOk
        /\ main' = IF c.auto /\ done.result = "Loaded"
                     THEN [main EXCEPT !.loaded = @ \cup {name}]
                     ELSE main

\* the invocation in slot k resumes and returns c
Resume(k, c) ==
  /\ pending' = [pending EXCEPT ![k] = Idle]
  /\ last' = c
  /\ micro' = IF IsNext(k) THEN Tail(micro) ELSE micro

\* ------------------------------------------------------------ list_agents
\* Positions of the snapshot: the clients whose getAgentCard call is rejected
\* during one listing, or whose peer has renamed itself.
MaxStored == Cardinality({CardName(u) : u \in Urls})

Refetches == SUBSET (1..MaxStored)

\* listAgents up to `await Promise.all(agentCardsPromises)`
ListStart ==
  /\ CanIssue
  /\ Installed("list_agents") # {}
  /\ Await([NewCall("list_agents", <<"list_agents">>, NoName, "none") EXCEPT
              !.snap = registeredAgents, !.expect = loadedOk,
              !.net = (Len(registeredAgents) > 0)])
  /\ UNCHANGED <<registry, tools, history>>

\* The cards getAgentCard returns for the clients of snap, the peers at the
\* positions in renamed serving their new name.
Refetch(snap, renamed) ==
  [i \in 1..Len(snap) |-> AgentCard(snap[i].conn.url, i \in renamed)]

\* the rest of list_agents, the getAgentCard of the clients at the positions
\* in failed being rejected and the peers at the positions in renamed having
\* renamed themselves; one rejection rejects Promise.all and nothing in
\* list_agents catches it
ListComplete(k, failed, renamed) ==
  /\ k \in Busy
  /\ pending[k].op = "list_agents"
  /\ failed \subseteq 1..Len(pending[k].snap)
  /\ renamed \subseteq (1..Len(pending[k].snap)) \ failed
  /\ UNCHANGED <<registry, tools, history>>
  /\ LET c == [pending[k] EXCEPT !.failed = failed]
     IN Resume(k,
          IF failed # {} THEN Finish(c, "Exception")
          ELSE IF Len(c.snap) = 0 THEN Finish(c, "NoAgents")
          ELSE Finish([c EXCEPT !.entries = ListOutput(Refetch(c.snap, renamed))],
                      "Listing"))

\* ------------------------------------------------------- <agent>_sendMessage
\* handler + A2AClientManager.sendMessage up to `await a2aClient.sendMessage`
SendStart(t) ==
  /\ CanIssue
  /\ Len(issued) < MaxTasks
  /\ t.op = "sendMessage"
  /\ UNCHANGED <<registeredAgents, contextMap, tools, nLoads, loadedOk,
                 cancelled, exchange, attempted, main>>
  /\ LET c == NewCall("sendMessage", t.name, t.agent, "none")
     IN IF ~HasAgent(registeredAgents, t.agent)
          THEN /\ ReturnNow(Finish(Said(c, "NotRegistered", NoResponse),
                                     HandlerCatch("NotRegistered")))
               /\ UNCHANGED <<taskMap, issued>>
          ELSE LET taskId == uuidv4(issued)
               IN /\ issued' = Append(issued, t.agent)
                  /\ taskMap' = AddTask(taskMap, t.agent, taskId)
                  /\ Await([c EXCEPT
                       !.task = taskId,
                       !.msgTask = taskId,
                       !.ctx = OutboundContext(contextMap, t.agent),
                       !.conn = MapGet(registeredAgents, t.agent),
                       !.first = \A i \in 1..Len(issued) : issued[i] # t.agent,
                       !.prev = exchange[t.agent].resp,
                       !.net = TRUE])

\* the response arrives in A2AClientManager.sendMessage: extractContextId and
\* contextMap.set, or the rejection passed on; the handler, which awaits it,
\* resumes later
SendComplete(k, resp) ==
  /\ k \in Busy \ Queued
  /\ pending[k].op = "sendMessage"
  /\ UNCHANGED <<registeredAgents, taskMap, tools, issued, nLoads, loadedOk,
                 cancelled, attempted, main>>
  /\ LET c == pending[k]
     IN /\ contextMap' =
             IF resp.kind = "throw" THEN contextMap
             ELSE StoreContext(contextMap, c.agent, extractContextId(resp))
        /\ exchange' = [exchange EXCEPT
             ![c.agent].resp = resp.ctx,
             ![c.agent].returned = @ \cup ({resp.ctx} \ {NoCtx})]
        /\ Settle(k, [c EXCEPT !.cause = resp.kind, !.got = resp])

\* the sendMessage handler resumes: it formats the response, or catches
SendReturn(k) ==
  /\ IsNext(k)
  /\ pending[k].op = "sendMessage"
  /\ UNCHANGED <<registry, tools, history>>
  /\ LET c == pending[k]
     IN Resume(k, Finish(Said(c, c.cause, c.got), HandlerResult(c.cause)))

\* A getTask or cancelTask invocation and what holds as it is issued.
TaskCall(op, t, taskId) ==
  [NewCall(op, t.name, t.agent, "none") EXCEPT
     !.task = taskId,
     !.after = (<<t.agent, taskId>> \in cancelled),
     !.open = IsOpen(taskId),
     !.mine = (taskId \in 1..Len(issued) /\ issued[taskId] = t.agent),
     !.tried = (<<t.agent, taskId>> \in attempted),
     !.racing = (\E k \in Busy : /\ pending[k].op = "cancelTask"
                                 /\ pending[k].agent = t.agent
                                 /\ pending[k].task = taskId)]

\* ----------------------------------------------------------- <agent>_getTask
\* handler + A2AClientManager.getTask up to `a2aClient.getTask`
GetStart(t, taskId) ==
  /\ CanIssue
  /\ t.op = "getTask"
  /\ UNCHANGED <<registry, tools, history>>
  /\ LET c == TaskCall("getTask", t, taskId)
         check == Precheck(registeredAgents, taskMap, t.agent, taskId)
     IN IF check # "ok"
          THEN ReturnNow(Finish(Said(c, check, NoResponse), HandlerCatch(check)))
          ELSE Await([c EXCEPT !.conn = MapGet(registeredAgents, t.agent),
                               !.net = TRUE])

\* (variant: a task that has been retrieved is dropped from the task set)
GetCompleteDropsTask(k, kind) ==
  /\ k \in Busy
  /\ pending[k].op = "getTask"
  /\ Resume(k, Finish(Said(pending[k], kind, TaskReply(pending[k].op, kind)),
                      HandlerResult(kind)))
  /\ taskMap' = DeleteTask(taskMap, pending[k].agent, pending[k].task)
  /\ UNCHANGED <<registeredAgents, contextMap, tools, history>>

\* the response arrives: handler formatting
GetComplete(k, kind) ==
  /\ k \in Busy
  /\ pending[k].op = "getTask"
  /\ Resume(k, Finish(Said(pending[k], kind, TaskReply(pending[k].op, kind)),
                      HandlerResult(kind)))
  /\ UNCHANGED <<registry, tools, history>>

\* -------------------------------------------------------- <agent>_cancelTask
\* handler + A2AClientManager.cancelTask up to `await a2aClient.cancelTask`
CancelStart(t, taskId) ==
  /\ CanIssue
  /\ t.op = "cancelTask"
  /\ UNCHANGED <<registeredAgents, contextMap, tools, issued, nLoads, loadedOk,
                 cancelled, exchange, main>>
  /\ LET c == TaskCall("cancelTask", t, taskId)
         check == Precheck(registeredAgents, taskMap, t.agent, taskId)
     IN IF check # "ok"
          THEN /\ ReturnNow(Finish(Said(c, check, NoResponse),
                                   HandlerCatch(check)))
               /\ UNCHANGED <<taskMap, attempted>>
          ELSE /\ taskMap' = DeleteTask(taskMap, t.agent, taskId)
               /\ attempted' = attempted \cup {<<t.agent, taskId>>}
               /\ Await([c EXCEPT !.conn = MapGet(registeredAgents, t.agent),
                                  !.net = TRUE])

CancelComplete(k, kind) ==
  /\ k \in Busy
  /\ pending[k].op = "cancelTask"
  /\ Resume(k, Finish(Said(pending[k], kind, TaskReply(pending[k].op, kind)),
                      HandlerResult(kind)))
  /\ cancelled' = IF kind = "task"
                    THEN cancelled \cup {<<pending[k].agent, pending[k].task>>}
                    ELSE cancelled
  /\ UNCHANGED <<registry, tools, issued, nLoads, loadedOk, exchange,
                 attempted, main>>

\* Task ids a host may pass: every id handed out so far, and one that never was.
TaskIdInputs == 0..Len(issued)

\* ------------------------------------------------------------------ main()
\* await Promise.all(loadingPromises): every auto-load has returned
AllSettled(p) == \A k \in DOMAIN p : ~(p[k].op = "load_agent" /\ p[k].auto)

\* agentConfigs.map(agent => toolImplementations.load_agent(...)): the
\* load_agent of every entry runs up to its first await, in order; at a null
\* entry the callback throws into the catch of main(), the loads started so
\* far are left in flight, neither they nor list_agents are awaited, and
\* main() runs on to server.connect without suspending
StartupLoads ==
  /\ main.pc = "start"
  /\ main.argv.flag /\ main.argv.parses
  /\ LET es == Reached(main.argv.entries)
     IN /\ pending' = [k \in Slots |->
              IF k <= Len(es)
                THEN [NewCall("load_agent", <<"load_agent">>, NoName, es[k].url)
                        EXCEPT !.net = TRUE, !.auto = TRUE,
                               !.conn = NewClient(k, es[k].url,
                                          ForwardedToken(es[k].accessToken),
                                          es[k].accessToken)]
                ELSE Idle]
        /\ nLoads' = Len(es)
        /\ main' = [main EXCEPT !.pc = IF es = main.argv.entries THEN "loading"
                                       ELSE "serving"]
  /\ last' = Idle
  /\ UNCHANGED <<registry, tools, issued, loadedOk, cancelled, exchange,
                 attempted, micro>>

\* await toolImplementations.list_agents(), once the loads have settled
StartupList ==
  /\ main.pc = "loading"
  /\ AllSettled(pending)
  /\ Busy # Slots
  /\ Await([NewCall("list_agents", <<"list_agents">>, NoName, "none") EXCEPT
              !.snap = registeredAgents, !.expect = loadedOk, !.auto = TRUE,
              !.net = (Len(registeredAgents) > 0)])
  /\ main' = [main EXCEPT !.pc = "listing"]
  /\ UNCHANGED <<registry, tools, issued, nLoads, loadedOk, cancelled,
                 exchange, attempted>>

\* main() has nothing left to await before server.connect: the --agents
\* block was skipped or JSON.parse threw into its catch, or its list_agents
\* returned or threw
ReadyToConnect ==
  IF main.pc = "start" THEN ~(main.argv.flag /\ main.argv.parses)
  ELSE /\ main.pc = "listing"
       /\ \A k \in Busy : ~(pending[k].op = "list_agents" /\ pending[k].auto)

\* await server.connect(transport)
Connect ==
  /\ ReadyToConnect
  /\ main' = [main EXCEPT !.pc = "serving"]
  /\ UNCHANGED <<registry, tools, pending, last, issued, nLoads, loadedOk,
                 cancelled, exchange, attempted, micro>>

Startup == StartupLoads \/ StartupList \/ Connect

\* ---------------------------------------------------------- specifications
\* load_agent for the given urls and tokens
LoadWith(urls, tokens) ==
  \/ \E u \in urls, token \in tokens : LoadStart(u, token)
  \/ \E k \in Slots, fetched \in BOOLEAN : LoadComplete(k, fetched)
  \/ \E k \in Slots : LoadReturn(k)

Load(urls) == LoadWith(urls, {NoToken})

List ==
  \/ ListStart
  \/ \E k \in Slots, failed \in Refetches, renamed \in Refetches :
       ListComplete(k, failed, renamed)

\* sendMessage through the handlers hs
SendVia(hs, responses) ==
  \/ \E t \in hs : SendStart(t)
  \/ \E k \in Slots, resp \in responses : SendComplete(k, resp)
  \/ \E k \in Slots : SendReturn(k)

\* getTask and cancelTask through the handlers hs, the peer answering with
\* one of kinds
GetWith(hs, kinds) ==
  \/ \E t \in hs, id \in TaskIdInputs : GetStart(t, id)
  \/ \E k \in Slots, kind \in kinds : GetComplete(k, kind)

GetCancelWith(hs, kinds) ==
  \/ GetWith(hs, kinds)
  \/ \E t \in hs, id \in TaskIdInputs : CancelStart(t, id)
  \/ \E k \in Slots, kind \in kinds : CancelComplete(k, kind)

GetCancelVia(hs) == GetCancelWith(hs, TaskResponses)

\* The host reaches the Registry through the installed tools only.
Send(responses) == SendVia(tools, responses)

GetCancel == GetCancelVia(tools)

\* The Registry addressed with any peer name, stored or not.
AnyPeer == {[name |-> NoName, op |-> op, agent |-> n] :
              op \in {AgentOps[i] : i \in DOMAIN AgentOps}, n \in AllNames}

\* Everything the host can do.  The properties are checked under the
\* narrower specifications below, each of which keeps the operations its
\* properties are about.
Next == Startup \/ Load(Urls) \/ List \/ Send(SendResponses) \/ GetCancel

\* The value of --agents: absent, unparsable, or a list of peers.
MaxAuto == IF MaxLoads < MaxInflight THEN MaxLoads ELSE MaxInflight

ArgvsWith(tokens) ==
  {NoAgentsFlag, [flag |-> TRUE, parses |-> FALSE, entries |-> <<>>]}
    \cup {[flag |-> TRUE, parses |-> TRUE, entries |-> es] :
            es \in UNION {[1..n -> [url : Urls, accessToken : tokens]
                                      \cup {NullEntry}] :
                            n \in 0..MaxAuto}}

Argvs == ArgvsWith({NoToken})

Spec == InitWith(Argvs) /\ [][Next]_vars

\* Startup with any --agents value, then the host loading one peer and
\* listing.
NextStartup == Startup \/ Load({"u1"}) \/ List

SpecStartup == InitWith(Argvs) /\ [][NextStartup]_vars

\* Two peers whose names differ only in whitespace.
RacePeers == {"u1", "u2"}

\* --agents absent, or a list of entries for these peers, the same peer
\* twice included.
RaceArgvs ==
  {NoAgentsFlag}
    \cup {[flag |-> TRUE, parses |-> TRUE, entries |-> es] :
            es \in UNION {[1..n -> [url : RacePeers, accessToken : {NoToken}]] :
                            n \in 1..MaxAuto}}

\* Startup with such a list, then the host loading these peers, several
\* loads in flight together.
NextRace == Startup \/ Load(RacePeers) \/ List

SpecRace == InitWith(RaceArgvs) /\ [][NextRace]_vars

\* main() alone, before the host can call anything: the network call awaited
\* in slot k by an auto-load or by the listing completes, or the continuation
\* queued for slot k runs.
BootCompletes(k) ==
  \/ \E fetched \in BOOLEAN : LoadComplete(k, fetched)
  \/ LoadReturn(k)
  \/ \E failed \in Refetches, renamed \in Refetches :
       ListComplete(k, failed, renamed)

NextBoot == Startup \/ \E k \in Slots : BootCompletes(k)

\* main() runs on whenever what it awaits has settled, and every network
\* call completes.
SpecBoot ==
  /\ InitWith(Argvs)
  /\ [][NextBoot]_vars
  /\ WF_vars(Startup)
  /\ \A k \in Slots : WF_vars(BootCompletes(k))

\* Loading and listing only.
NextLoad == Connect \/ Load(Urls) \/ List

SpecLoad == Init /\ [][NextLoad]_vars

\* Two peers with distinct names.
TwoPeers == {"u1", "u3"}

\* Loading and the task operations; the peers return no continuity token.
NextTask ==
  \/ Connect
  \/ Load(TwoPeers)
  \/ Send({r \in SendResponses : r.ctx = NoCtx})
  \/ GetCancel

\* One peer to load; the other names stay without a connection.
OnePeer == {"u1"}

\* The task operations with the Registry addressed under every peer name.
NextRegistry ==
  \/ Connect
  \/ Load(OnePeer)
  \/ SendVia(AnyPeer, {r \in SendResponses : r.ctx = NoCtx})
  \/ GetCancelVia(AnyPeer)

SpecRegistry == Init /\ [][NextRegistry]_vars

SpecTask == Init /\ [][NextTask]_vars

\* Loading and message exchange.
NextCtx == Connect \/ Load(TwoPeers) \/ Send(SendResponses)

SpecCtx == Init /\ [][NextCtx]_vars

\* Loading with and without a bearer token, then the task operations.
NextAuth ==
  \/ Connect
  \/ LoadWith(TwoPeers, AuthInputs)
  \/ Send({r \in SendResponses : r.ctx = NoCtx /\ r.kind = "task"})
  \/ GetCancel

SpecAuth == Init /\ [][NextAuth]_vars

\* What a peer may answer to message/send when it keeps no dialogue state.
LiveResponses == {r \in SendResponses : r.ctx = NoCtx}

\* A peer that answers tasks/get and tasks/cancel with the task.
LiveTaskResponses == {"task"}

\* The network call awaited in slot k completes, with a result or a failure,
\* or the continuation queued for slot k runs.
Completes(k) ==
  \/ \E fetched \in BOOLEAN : LoadComplete(k, fetched)
  \/ LoadReturn(k)
  \/ SendReturn(k)
  \/ \E failed \in Refetches, renamed \in Refetches :
       ListComplete(k, failed, renamed)
  \/ \E resp \in LiveResponses : SendComplete(k, resp)
  \/ \E kind \in TaskResponses : GetComplete(k, kind)
  \/ \E kind \in TaskResponses : CancelComplete(k, kind)

\* Every operation on one peer, every network call completing eventually
\* with any of its outcomes.
NextLive ==
  \/ Connect
  \/ Load(OnePeer)
  \/ List
  \/ Send(LiveResponses)
  \/ GetCancel

SpecLive ==
  Init /\ [][NextLive]_vars /\ \A k \in Slots : WF_vars(Completes(k))

\* The peer's answer to message/send in the read-only runs: a task with a
\* continuity token.
ReadResponses == {r \in SendResponses : r.kind = "task" /\ r.ctx = "c1"}

\* getTask under any peer name and list_agents, among loads and sends that
\* fill the Registry.
NextRead ==
  \/ Connect
  \/ Load(OnePeer)
  \/ List
  \/ Send(ReadResponses)
  \/ GetWith(AnyPeer, TaskResponses)

SpecRead == Init /\ [][NextRead]_vars

\* Two peers, each with a connection, tasks and a continuity token of its
\* own, and every operation on them.
NextFrame ==
  \/ Connect
  \/ Load(TwoPeers)
  \/ Send(ReadResponses)
  \/ GetCancelWith(tools, LiveTaskResponses)

SpecFrame == Init /\ [][NextFrame]_vars

\* Task results that echo the id of the message and task results with an id
\* the peer assigned.
IdResponses ==
  LET echo == {r \in SendResponses : r.ctx = NoCtx /\ r.kind \in {"task", "throw"}}
  IN echo \cup {OwnId(r) : r \in {e \in echo : e.kind = "task"}}

\* One peer whose task results may carry ids of its own.
NextIds == Connect \/ Load(OnePeer) \/ Send(IdResponses) \/ GetCancel

SpecIds == Init /\ [][NextIds]_vars

\* The parts a peer may put into a message.
PartValues ==
  {TextPart(""), TextPart("hello"), DataPart("d1")}
    \cup {FilePart("f", "uri")}
    \cup {FilePart("", src) : src \in {"uri", "bytes", "none"}}

PartSeqs == UNION {[1..n -> PartValues] : n \in 0..MaxParts}

\* Answers to message/send of every shape.
RichResponses ==
  {Response(kind, NoCtx, FALSE, <<>>, "none", FALSE) : kind \in {"throw", "error"}}
    \cup {Response("message", NoCtx, TRUE, ps, "none", FALSE) : ps \in PartSeqs}
    \cup {Response("task", NoCtx, TRUE, ps, "working", FALSE) :
            ps \in {qs \in PartSeqs : Len(qs) <= 1}}
    \cup {Response("task", NoCtx, FALSE, <<>>, "working", h) : h \in BOOLEAN}

\* The host waits for one answer before it asks again.
Sequential == Cardinality({k \in Slots : pending'[k].op # "none"}) <= 1

\* One peer, and messages answered in every shape, a message at a time.
NextFormat ==
  \/ Connect
  \/ Load(OnePeer) /\ Sequential
  \/ Send(RichResponses) /\ Sequential

SpecFormat == Init /\ [][NextFormat]_vars

TypeOK ==
  /\ nLoads <= MaxLoads + MaxAuto
  /\ Len(issued) <= MaxTasks
  /\ \A n \in AllNames : taskMap[n] \subseteq 1..Len(issued)

\* ================================================================= claims
\* The step is the one in which the Registry call of the invocation of op in
\* slot k settles.
Settles(k, op) == pending[k].op = op /\ micro' = Append(micro, k)

\* The step is the one in which the invocation of op in slot k returns.
Returns(k, op) == pending[k].op = op /\ pending'[k].op = "none"

PendingCalls(op) == {pending[k] : k \in {j \in Busy : pending[j].op = op}}

\* The agent, other than the addressed one, for which the call's task id
\* was generated (NoName if there is none).
ForeignOwner(c) ==
  IF c.task \in 1..Len(issued) /\ issued[c.task] # c.agent
    THEN issued[c.task] ELSE NoName

\* C1  A getTask or cancelTask through peer B's tools for a task id that a
\* sendMessage to another peer A generated returns TaskNotFound, makes no
\* network call, and leaves the id in A's task set if it was there.
C1_OwnershipIsolation ==
  (last.op \in {"getTask", "cancelTask"} /\ ForeignOwner(last) # NoName) =>
     /\ last.result = "TaskNotFound"
     /\ ~last.net
     /\ last.open => last.task \in taskMap[ForeignOwner(last)]

C1_Witness ==
  /\ last.op = "cancelTask"
  /\ ForeignOwner(last) # NoName
  /\ last.open
  /\ last.result = "TaskNotFound"
  /\ last.task \in taskMap[ForeignOwner(last)]

\* C2  The task sets of distinct peers are pairwise disjoint.
C2_TaskSetsDisjoint ==
  \A a, b \in AllNames : a # b => taskMap[a] \cap taskMap[b] = {}

C2_Witness ==
  \E a, b \in AllNames : a # b /\ taskMap[a] # {} /\ taskMap[b] # {}

\* C3  A load_agent whose descriptor name is already registered returns
\* AlreadyRegistered, stores nothing, installs nothing, and leaves the
\* connection map and the tool table as they were.
C3_DuplicateRejected ==
  /\ []((last.op = "load_agent" /\ last.dup) =>
          /\ last.result = "AlreadyRegistered"
          /\ ~last.stored
          /\ last.installed = <<>>)
  /\ [][\A k \in Slots :
          /\ (Settles(k, "load_agent") /\ pending'[k].dup) =>
               /\ pending'[k].cause = "AlreadyRegistered"
               /\ registeredAgents' = registeredAgents
               /\ tools' = tools
          /\ (Returns(k, "load_agent") /\ pending[k].dup) =>
               /\ registeredAgents' = registeredAgents
               /\ tools' = tools]_vars

C3_Witness ==
  /\ last.op = "load_agent"
  /\ last.dup
  /\ last.result = "AlreadyRegistered"
  /\ \A i \in 1..3 :
       \E t \in tools : t.name = ToolName(last.agent, AgentOps[i])
                        /\ t.agent = last.agent
  /\ MapGet(registeredAgents, last.agent).id # last.conn.id

\* C4  Of two load_agent calls with the same descriptor name that were in
\* flight together and both fetched it, whether the host or main() made
\* them, never both succeed: at most one stores a connection, the one that
\* does not fails with AlreadyRegistered, and unless the name was registered
\* before either resumed, the first to resume stores its connection,
\* installs its three tools and reports success.
C4_ConcurrentLoads ==
  (last.op = "load_agent" /\ last.result # "DescriptorFetchFailed") =>
     \A r \in last.rivals :
        /\ ~(r.result = "Loaded" /\ last.result = "Loaded")
        /\ ~(r.stored /\ last.stored)
        /\ last.result = "AlreadyRegistered"
        /\ ~r.stored => r.result = "AlreadyRegistered"
        /\ ~r.dup => (r.result = "Loaded" /\ r.stored /\ r.installed)

\* C5  A load_agent whose descriptor name has the same sanitized name as a
\* stored connection fails with AlreadyRegistered and stores no connection.
C5_SanitizedKey ==
  (last.op = "load_agent" /\ last.clash) =>
     last.result = "AlreadyRegistered" /\ ~last.stored

\* C6  Once cancelTask(peer, T) has succeeded, every getTask(peer, T) and
\* cancelTask(peer, T) issued later returns TaskNotFound, and T is no longer
\* in the peer's task set.
C6_CancelThenGet ==
  /\ (last.op \in {"getTask", "cancelTask"} /\ last.after) =>
        last.result = "TaskNotFound" /\ ~last.net
  /\ \A c \in PendingCalls("getTask") \cup PendingCalls("cancelTask") : ~c.after
  /\ \A p \in cancelled : p[2] \notin taskMap[p[1]]

C6_Witness ==
  last.op = "getTask" /\ last.after /\ last.result = "TaskNotFound"

\* C7  A sendMessage issued when the latest response returned by that peer
\* carried a token carries that token as contextId; the first message ever
\* sent to a peer carries none.
C7_ContextContinuity ==
  \A c \in PendingCalls("sendMessage") :
     /\ c.prev # NoCtx => c.ctx = c.prev
     /\ c.first => c.ctx = NoCtx

C7_Witness ==
  \E c \in PendingCalls("sendMessage") : c.prev = "c2" /\ c.ctx = "c2"

\* C8  The context stored for a peer, and the contextId of every message
\* sent to it, is absent or a token that peer itself returned.
C8_ContextIsolation ==
  /\ \A n \in AllNames :
        contextMap[n] # NoCtx => contextMap[n] \in exchange[n].returned
  /\ \A c \in PendingCalls("sendMessage") :
        c.ctx # NoCtx => c.ctx \in exchange[c.agent].returned

C8_Witness ==
  \E c \in PendingCalls("sendMessage") :
     /\ c.ctx = NoCtx
     /\ \E n \in AllNames : n # c.agent /\ contextMap[n] # NoCtx

\* C9  list_agents answers "none loaded" exactly when no peer is registered,
\* and otherwise lists exactly the peers whose load_agent succeeded, in load
\* order (each under the name its peer gives when asked again), with no
\* entry for a load that failed.
C9_Listing ==
  (last.op = "list_agents" /\ last.result # "Exception") =>
     /\ last.result = "NoAgents" <=> Len(last.snap) = 0
     /\ last.result = "Listing" =>
          /\ Len(last.entries) = Len(last.expect)
          /\ \A i \in 1..Len(last.entries) :
               last.entries[i].name \in {last.expect[i], Renamed(last.expect[i])}

\* The operation names of the claim as stated: S-sendMessage, S-getTask,
\* S-cancelTask.
Hyphenated(name) == {Sanitize(name) \o <<"-", AgentOps[i]>> : i \in 1..3}

Underscored(name) == {Sanitize(name) \o <<"_", AgentOps[i]>> : i \in 1..3}

NewlyInstalled(c) == ToolNames(tools) \ ToolNames(c.toolsBefore)

Range(f) == {f[i] : i \in DOMAIN f}

FailureTexts ==
  {"DescriptorFetchFailed", "AlreadyRegistered", "ToolAlreadyRegistered",
   "NotRegistered", "TaskNotFound", "NetworkError", "RemoteError"}

\* C11  A load_agent that fails (descriptor fetch, AlreadyRegistered, or any
\* other failure) returns a failure text and leaves the installed
\* operations exactly as they were before the call.
C11_FailedLoadInstallsNothing ==
  (last.op = "load_agent" /\ last.result # "Loaded") =>
     /\ last.result \in FailureTexts
     /\ last.installed = <<>>
     /\ tools = last.toolsBefore

C11_Witness ==
  /\ last.op = "load_agent"
  /\ last.result = "ToolAlreadyRegistered"
  /\ tools = last.toolsBefore
  /\ Cardinality(tools) = 5

\* C12  load_agent and list_agents return a text for every outcome; no
\* exception reaches the host.
C12_StaticToolsNeverThrow ==
  last.op \in {"load_agent", "list_agents"} => last.result # "Exception"

\* C13  sendMessage, getTask and cancelTask handlers return a text for every
\* outcome of the Registry call; no exception reaches the dispatcher.
C13_HandlersNeverThrow ==
  last.op \in {"sendMessage", "getTask", "cancelTask"} =>
     last.result \in FailureTexts \cup {"Message", "Task"}

C13_Witness ==
  /\ last.op = "sendMessage"
  /\ last.result = "NetworkError"
  /\ last.net

PeerOps == {"sendMessage", "getTask", "cancelTask"}

\* C14  A sendMessage, getTask or cancelTask addressed to a name with no
\* stored connection returns NotRegistered (never TaskNotFound), makes no
\* network call, generates no task id and changes no task set or context.
C14_UnknownPeer ==
  [][(last'.op \in PeerOps /\ ~MapHas(registeredAgents', last'.agent)) =>
       /\ last'.result = "NotRegistered"
       /\ ~last'.net
       /\ pending' = pending
       /\ taskMap' = taskMap
       /\ contextMap' = contextMap
       /\ issued' = issued]_vars

C14_Witness ==
  /\ last.op = "cancelTask"
  /\ last.result = "NotRegistered"
  /\ ~MapHas(registeredAgents, last.agent)
  /\ last.open
  /\ Len(registeredAgents) > 0

\* The getTask and cancelTask invocations in view: the one just returned and
\* those awaiting the peer.
TaskCalls ==
  {c \in {last} \cup {pending[k] : k \in Busy} : c.op \in {"getTask", "cancelTask"}}

\* C15  For a registered peer the ownership check passes exactly when the
\* id is in that peer's task set: every id a sendMessage to that peer added
\* and no cancelTask has cancelled (or is cancelling) reaches the network,
\* every other id gets TaskNotFound without a network call.
C15_OwnershipCheck ==
  \A c \in TaskCalls :
    /\ c.net <=> (c.mine /\ ~c.after /\ ~c.racing)
    /\ ~c.net => c.result = "TaskNotFound"

CancelInFlight(n, id) ==
  \E k \in Busy : /\ pending[k].op = "cancelTask"
                  /\ pending[k].agent = n
                  /\ pending[k].task = id

\* C16  A task id leaves its peer's task set only by a cancellation that
\* succeeded: a cancelTask that threw or was answered with a protocol error
\* leaves the id in the set.
C16_OnlySuccessRemoves ==
  \A id \in 1..Len(issued) :
    (<<issued[id], id>> \notin cancelled /\ ~CancelInFlight(issued[id], id))
       => id \in taskMap[issued[id]]

\* C17  Of the cancelTask calls for one (peer, task id), issued while one is
\* awaiting the peer or after one succeeded, at most one passes the
\* ownership check and reaches the network; the others get TaskNotFound.
C17_RacingCancel ==
  /\ \A j \in Busy, k \in Busy :
       (/\ j # k
        /\ pending[j].op = "cancelTask" /\ pending[k].op = "cancelTask"
        /\ pending[j].agent = pending[k].agent)
          => pending[j].task # pending[k].task
  /\ \A c \in PendingCalls("cancelTask") : ~c.racing /\ ~c.after /\ ~c.tried
  /\ (last.op = "cancelTask" /\ (last.racing \/ last.after)) =>
        (last.result = "TaskNotFound" /\ ~last.net)
  /\ (last.op = "cancelTask" /\ last.net) => ~last.racing

C17_Witness ==
  /\ last.op = "cancelTask"
  /\ last.racing
  /\ last.result = "TaskNotFound"
  /\ CancelInFlight(last.agent, last.task)

\* The three operations of peer n, bound to n.
Triplet(n) ==
  {[name |-> ToolName(n, op), op |-> op, agent |-> n] : op \in PeerOps}

RegisteredNames == {registeredAgents[i].name : i \in 1..Len(registeredAgents)}

\* C18  When --agents supplies a list, the transport is connected only
\* after every auto-load load_agent has returned, so the operations of every
\* successfully auto-loaded peer are installed by then.
C18_StartupOrdering ==
  main.pc = "serving" =>
    /\ \A k \in Busy : ~pending[k].auto
    /\ \A n \in main.loaded : Triplet(n) \subseteq tools

\* C19  Whenever no load_agent is in progress, the installed operations are
\* exactly load_agent, list_agents and the complete triplet of every peer
\* the Registry holds.
C19_InstalledSet ==
  (\A k \in Busy : pending[k].op # "load_agent") =>
     tools = StaticTools \cup UNION {Triplet(n) : n \in RegisteredNames}

\* C20  Once a connection is stored and its operations are installed, no
\* later step removes or replaces the connection or removes or rebinds an
\* operation.
C20_Monotonic ==
  [][/\ Len(registeredAgents') >= Len(registeredAgents)
     /\ \A i \in 1..Len(registeredAgents) :
          registeredAgents'[i] = registeredAgents[i]
     /\ tools \subseteq tools']_vars

C20_Witness ==
  /\ last.op = "load_agent"
  /\ last.result = "AlreadyRegistered"
  /\ last.conn.id = 2
  /\ Len(registeredAgents) = 1
  /\ registeredAgents[1].conn.id = 1
  /\ Triplet(registeredAgents[1].name) \subseteq tools

RemoteErrorForms ==
  {"Error from agent %: %", "Error from agent % when getting task %",
   "Error from agent % when canceling task: %"}

LocalFailureForms ==
  {"Failed to send message to %: %", "Failed to get task from agent %: %",
   "Failed to Cancel Task on Agent %: %"}

\* C21  A peer-specific handler words a response with an error payload as
\* a remote error, naming the peer and quoting the peer's message; it words
\* no local failure (NotRegistered, TaskNotFound, network exception) that
\* way, and words every local failure as a local one.
C21_RemoteErrorDistinct ==
  (last.op \in PeerOps) =>
     /\ last.text.form \in RemoteErrorForms <=> last.cause = "error"
     /\ last.text.form \in LocalFailureForms <=> last.cause \in LocalFailures
     /\ last.cause = "error" =>
          (last.text.peer = last.agent /\ last.text.body = <<PeerErrorMessage>>)

C21_Witness ==
  /\ last.op = "cancelTask"
  /\ last.cause = "error"
  /\ last.text.form \in RemoteErrorForms
  /\ last.text.peer = last.agent

\* The invocations in view: the one just returned and those awaiting.
CallsInView == {c \in {last} \cup {pending[k] : k \in Busy} : c.op # "none"}

\* C22  The descriptor fetch of a load_agent given a token, and every later
\* sendMessage, getTask and cancelTask call to that peer, carry that token;
\* no call to another peer carries it; without a token there is no header.
C22_TokenScoping ==
  \A c \in CallsInView :
    (c.net /\ c.op \in PeerOps \cup {"load_agent"}) =>
       /\ c.conn.auth = c.conn.given
       /\ \A i \in 1..Len(registeredAgents) :
            (c.op \in PeerOps /\ registeredAgents[i].name # c.agent
               /\ c.conn.auth # NoToken)
              => c.conn.auth # registeredAgents[i].conn.given
                   \/ c.conn.given = registeredAgents[i].conn.given

\* slot k takes up a sendMessage in this step / the one in it returns
SendIssued(k) == pending[k].op = "none" /\ pending'[k].op = "sendMessage"

SendReturned(k) == pending[k].op = "sendMessage" /\ pending'[k].op = "none"

\* C23  A sendMessage to a registered peer adds one id, never handed out
\* before, to that peer's task set and to no other, before the network call;
\* the outbound message carries that id; no outcome of the call removes it.
C23_SendAddsFreshTask ==
  [][\A k \in Slots :
       /\ SendIssued(k) =>
            LET c == pending'[k]
            IN /\ c.net
               /\ c.task \notin 0..Len(issued)
               /\ c.task \notin UNION {taskMap[n] : n \in AllNames}
               /\ c.msgTask = c.task
               /\ taskMap' = [taskMap EXCEPT ![c.agent] = @ \cup {c.task}]
       /\ Settles(k, "sendMessage") =>
            /\ taskMap' = taskMap
            /\ pending'[k].task = pending[k].task
       /\ SendReturned(k) =>
            /\ taskMap' = taskMap
            /\ last'.task = pending[k].task
            /\ last'.cause \in {"message", "task", "error", "throw"}]_vars

C23_Witness ==
  /\ last.op = "sendMessage"
  /\ last.cause = "throw"
  /\ last.task \in taskMap[last.agent]
  /\ \A n \in AllNames \ {last.agent} : last.task \notin taskMap[n]

\* C24  A peer's stored context is defined only once an exchange with that
\* peer has returned a token, and is then a token that peer returned; only a
\* sendMessage whose response yields a token changes it.
C24_StoredContext ==
  /\ [](\A n \in AllNames :
          contextMap[n] # NoCtx => contextMap[n] \in exchange[n].returned)
  /\ [][\/ contextMap' = contextMap
        \/ \E k \in Slots :
             /\ Settles(k, "sendMessage")
             /\ pending'[k].cause \in {"message", "task"}
             /\ pending'[k].got.ctx # NoCtx
             /\ contextMap' =
                  [contextMap EXCEPT ![pending[k].agent] = pending'[k].got.ctx]]_vars

C24_Witness ==
  /\ last.op = "sendMessage"
  /\ last.cause \in {"throw", "error"}
  /\ contextMap[last.agent] # NoCtx
  /\ contextMap[last.agent] = last.ctx

\* C25  Every installed peer-specific operation addresses the Registry with
\* a name for which a connection is stored, so invoking an installed
\* operation never ends in NotRegistered.
C25_InstalledAreRegistered ==
  /\ \A t \in tools : t.op \in PeerOps => MapHas(registeredAgents, t.agent)
  /\ \A c \in CallsInView :
       c.op \in PeerOps =>
          /\ c.cause # "NotRegistered"
          /\ c.result # "NotRegistered"
          /\ MapHas(registeredAgents, c.agent)

C25_Witness ==
  /\ last.op \in PeerOps
  /\ last.cause = "task"
  /\ Cardinality(tools) = 8
  /\ \A t \in tools : t.op \in PeerOps => MapHas(registeredAgents, t.agent)

\* C26  Every load issues the descriptor fetch, also for a peer already
\* registered; a failed fetch is reported as such and changes nothing; the
\* duplicate check is made on the connection map as it is when the
\* connection is inserted, with nothing in between.
C26_CheckAfterFetch ==
  /\ [](\A c \in CallsInView : c.op = "load_agent" => c.net)
  /\ []((last.op = "load_agent" /\ last.result = "DescriptorFetchFailed") =>
          ~last.stored /\ last.installed = <<>>)
  /\ [][\A k \in Slots :
          /\ (Settles(k, "load_agent")
                 /\ pending'[k].cause = "DescriptorFetchFailed") =>
               registeredAgents' = registeredAgents /\ tools' = tools
          /\ (Returns(k, "load_agent")
                 /\ pending[k].cause = "DescriptorFetchFailed") =>
               /\ last'.result = "DescriptorFetchFailed"
               /\ registeredAgents' = registeredAgents /\ tools' = tools]_vars
  /\ [][registeredAgents' # registeredAgents =>
          \E k \in Slots :
            /\ Settles(k, "load_agent")
            /\ pending'[k].stored
            /\ ~MapHas(registeredAgents, pending'[k].agent)
            /\ registeredAgents' =
                 Append(registeredAgents,
                        [name |-> pending'[k].agent,
                         conn |-> pending'[k].conn])]_vars

C26_Witness ==
  /\ last.op = "load_agent"
  /\ last.result = "DescriptorFetchFailed"
  /\ last.net
  /\ Len(registeredAgents) = 1
  /\ registeredAgents[1].name = CardName(last.url)

FileLeads == {"File: ", "File: [unnamed file with bytes]", "[unknown file part]"}

\* The text b follows the order of preference over the parts ps: non-empty
\* text parts, else data parts, else file parts, else the marker.
Preferred(ps, b) ==
  LET texts == {i \in 1..Len(ps) : ps[i].kind = "text" /\ ps[i].text # ""}
      datas == {i \in 1..Len(ps) : ps[i].kind = "data" /\ ps[i].data # ""}
      files == {i \in 1..Len(ps) : ps[i].kind = "file"}
  IN IF texts # {}
       THEN /\ Range(b) \cap (FileLeads \cup {"Data: "}) = {}
            /\ {ps[i].text : i \in texts} \subseteq Range(b)
            /\ Len(b) = 2 * Cardinality(texts) - 1
     ELSE IF datas # {}
       THEN /\ b[1] = "Data: "
            /\ Range(b) \cap FileLeads = {}
            /\ Len(b) = 3 * Cardinality(datas) - 1
     ELSE IF files # {}
       THEN b[1] \in FileLeads
     ELSE b = <<"[unknown message part]">>

\* C27  The sendMessage handler words an error payload as a remote error;
\* otherwise a result of kind message as its extracted text (text parts
\* before data parts before file parts); otherwise the result as a task
\* report of id, state and message.
C27_SendResultShapes ==
  (last.op = "sendMessage" /\ last.cause \in {"error", "message", "task"}) =>
     LET b == last.text.body
     IN /\ last.cause = last.got.kind
        /\ last.cause = "error" =>
             last.text = Text("Error from agent %: %", last.agent,
                              <<PeerErrorMessage>>)
        /\ last.cause = "message" =>
             (last.text.form = "%" /\ Preferred(last.got.parts, b))
        /\ last.cause = "task" =>
             /\ last.text.form = "%"
             /\ SubSeq(b, 1, 6) = <<"ID:      ", ToString(last.task), "\n",
                                    "State:   ", last.got.state, "\n">>
             /\ "Message: " \in Range(b) <=> last.got.msg
             /\ last.got.msg =>
                  (b[7] = "Message: "
                     /\ \E n \in 8..Len(b) :
                          Preferred(last.got.parts, SubSeq(b, 8, n)))

C27_Witness ==
  /\ last.op = "sendMessage"
  /\ last.cause = "message"
  /\ last.got.parts = <<DataPart("d1"), TextPart("hello")>>
  /\ last.text.body = <<"hello">>

\* C28  If every network call completes, every invocation returns, and what
\* it returns is a result for the host, not an exception; an invocation
\* never waits for another to finish: the network answer it awaits can be
\* taken whatever else is in flight, and the continuation at the head of the
\* queue can run.
C28_EveryCallReturns ==
  /\ \A k \in Slots : (pending[k].op # "none") ~> (pending[k].op = "none")
  /\ [](last.op # "none" => last.result # "Exception")
  /\ [](\A k \in Busy : (k \notin Queued \/ IsNext(k)) => ENABLED Completes(k))

\* The positions in call c's snapshot whose re-fetch succeeded.
Refetched(c) == (1..Len(c.snap)) \ c.failed

\* C29  A list_agents during which the descriptor re-fetch fails for some
\* registered peers and succeeds for others still returns a listing, with
\* the entry of every peer whose re-fetch succeeded.
C29_ListSurvivesRefetchFailure ==
  (last.op = "list_agents" /\ last.failed # {} /\ Refetched(last) # {}) =>
     /\ last.result = "Listing"
     /\ \A i \in Refetched(last) :
          \E j \in 1..Len(last.entries) :
            last.entries[j].url = CardUrl(last.snap[i].conn.url)

\* What load_agent returns when it fails.
LoadFailures ==
  {"DescriptorFetchFailed", "AlreadyRegistered", "ToolAlreadyRegistered"}

\* C30  A load_agent that returns a failure has stored no connection: the
\* connection map does not hold the client the call created.
C30_FailedLoadStoresNothing ==
  (last.op = "load_agent" /\ last.result \in LoadFailures) =>
     /\ ~last.stored
     /\ \A i \in 1..Len(registeredAgents) :
          registeredAgents[i].conn.id # last.conn.id

\* The slots of the sendMessage calls in flight to the agent of the call in
\* slot k, other than k.
Overlapping(k) ==
  {j \in Busy \ {k} : /\ pending[j].op = "sendMessage"
                       /\ pending[j].agent = pending[k].agent}

\* C31  A sendMessage carries the context stored for its peer when it is
\* issued and keeps it while suspended, whatever responses arrive meanwhile;
\* when its response is processed its token, if it has one, becomes the
\* stored context, whether or not calls issued later have completed before.
C31_ContextReadWrite ==
  [][\A k \in Slots :
       /\ SendIssued(k) =>
            /\ pending'[k].ctx = contextMap[pending'[k].agent]
            /\ contextMap' = contextMap
       /\ (pending[k].op = "sendMessage" /\ pending'[k].op = "sendMessage") =>
            pending'[k].ctx = pending[k].ctx
       /\ Settles(k, "sendMessage") =>
            /\ pending'[k].ctx = pending[k].ctx
            /\ \A j \in Overlapping(k) : pending'[j].ctx = pending[j].ctx
            /\ extractContextId(pending'[k].got) # NoCtx =>
                 contextMap'[pending[k].agent] =
                   extractContextId(pending'[k].got)
            /\ extractContextId(pending'[k].got) = NoCtx =>
                 contextMap' = contextMap
       /\ SendReturned(k) =>
            /\ last'.ctx = pending[k].ctx
            /\ last'.got = pending[k].got
            /\ contextMap' = contextMap]_vars

\* Two calls to one peer were in flight together; the one issued first is
\* processed last and its token is the stored one, the other's is not.
C31_Witness ==
  /\ Len(issued) >= 2
  /\ issued[1] = issued[2]
  /\ Busy = {}
  /\ last.op = "sendMessage"
  /\ last.task = 1
  /\ last.ctx = NoCtx
  /\ last.got.ctx = "c1"
  /\ exchange[last.agent].returned = {"c1", "c2"}
  /\ contextMap[last.agent] = "c1"

\* C32  The task id in a sendMessage task report is in the peer's task set
\* (unless a cancelTask has taken the generated id out meanwhile), also when
\* the peer gave the task an id of its own.
C32_ShownIdIsTracked ==
  (/\ last.op = "sendMessage"
   /\ last.cause = "task"
   /\ <<last.agent, last.task>> \notin attempted) =>
     \E id \in taskMap[last.agent] : last.text.body[2] = ToString(id)

\* The step is one of operation op: an invocation of op is issued, resumes,
\* or returns without having been suspended.
StepOf(op) ==
  \/ \E k \in Slots : /\ pending'[k] # pending[k]
                      /\ op \in {pending[k].op, pending'[k].op}
  \/ pending' = pending /\ last'.op = op

\* C33  No step of a getTask or of a list_agents, whatever its outcome,
\* changes the connection map, a task set or a stored context.
C33_ReadOnly ==
  [][(StepOf("getTask") \/ StepOf("list_agents")) =>
       /\ registeredAgents' = registeredAgents
       /\ taskMap' = taskMap
       /\ contextMap' = contextMap]_vars

\* A getTask answered with a protocol error has returned, the peer's task
\* set and stored context being in place.
C33_Witness ==
  /\ last.op = "getTask"
  /\ last.cause = "error"
  /\ last.task \in taskMap[last.agent]
  /\ contextMap[last.agent] = "c1"

\* The invocations that act in the step: issued, settled, resumed, or
\* returned without having been suspended.
ActingCalls ==
  {pending'[k] : k \in {j \in Slots : pending[j].op = "none"
                                      /\ pending'[j].op # "none"}}
    \cup {pending'[k] : k \in {j \in Slots : micro' = Append(micro, j)}}
    \cup {pending[k] : k \in {j \in Slots : pending[j].op # "none"
                                           /\ pending'[j].op = "none"}}
    \cup (IF pending' = pending THEN {last'} ELSE {})

\* The peer an invocation addresses.
PeerOf(c) == IF c.op = "load_agent" THEN CardName(c.url) ELSE c.agent

\* The connection stored for a name, if any.
ConnOf(m, name) == IF MapHas(m, name) THEN MapGet(m, name) ELSE NoConn

\* C34  A step of a sendMessage, getTask, cancelTask or load_agent addressed
\* to one peer leaves the connection, the task set and the stored context of
\* every other peer as they were, whatever is in flight for those peers.
C34_PerPeerFrame ==
  [][\A c \in ActingCalls :
       c.op \in PeerOps \cup {"load_agent"} =>
         \A b \in AllNames \ {PeerOf(c)} :
            /\ ConnOf(registeredAgents', b) = ConnOf(registeredAgents, b)
            /\ taskMap'[b] = taskMap[b]
            /\ contextMap'[b] = contextMap[b]]_vars

\* A cancelTask on one peer has returned while another peer has a
\* connection, a task and a stored context, and a call in flight.
C34_Witness ==
  /\ last.op = "cancelTask"
  /\ last.net
  /\ \E b \in AllNames \ {last.agent} :
        /\ MapHas(registeredAgents, b)
        /\ taskMap[b] # {}
        /\ contextMap[b] # NoCtx
        /\ \E k \in Busy : pending[k].agent = b

\* The entries of the --agents array that name a peer.
PeerEntries == {i \in 1..Len(main.argv.entries) :
                  main.argv.entries[i] # NullEntry}

\* C35  Whatever --agents holds and however the auto-loads and the listing
\* end, main() reaches server.connect; load_agent and list_agents are
\* installed throughout, and by then load_agent has run for every entry of
\* a parsed list that names a peer.
C35_StartupServes ==
  /\ <>(main.pc = "serving")
  /\ [](StaticTools \subseteq tools)
  /\ []((main.pc = "serving" /\ main.argv.flag /\ main.argv.parses) =>
          nLoads = Cardinality(PeerEntries))

====
